---- MODULE Spec2Model ----
(***************************************************************************)
(* rag-query service: artifact provisioning pipeline (artifact_loader.py), *)
(* the application lifespan and HTTP handlers (main.py) and the process-   *)
(* wide vector-store handle and statistics (query_engine.py).              *)
(*                                                                         *)
(* The external collaborators (object storage, openssl, tarfile, the       *)
(* vector store, the embedding service, sqlite) are modelled by their      *)
(* outcomes: each call either returns or raises, chosen nondeterministically.*)
(***************************************************************************)
EXTENDS Integers, Sequences, FiniteSets, TLC

\* ---------------------------------------------------------------- bounds
MaxPoints == 1      \* points held by the collection of the vector store
MaxFiles == 1       \* rows of the indexed_files table
MaxHits == 1        \* results a search returns after truncation to limit

\* ------------------------------------------------------------- constants
COLLECTION_NAME == "slack_messages"

Digests == {"d1", "d2"}      \* SHA-256 hex digests (two distinct values)
NoDigest == ""               \* manifest.get("sha256_plaintext", "")
Versions == {"latest", "7"}  \* RAG_ARTIFACT_VERSION: the sentinel or a pinned one

LoadStages ==
    << "mkdir", "check_local", "check_credentials", "check_passphrase",
       "resolve_version", "fetch_manifest", "download", "decrypt",
       "verify_checksum", "extract", "verify_layout" >>

StartupSteps == << "init_client", "ensure_collection" >>

Stages == { LoadStages[i] : i \in 1..Len(LoadStages) }
Steps == Stages \cup { StartupSteps[i] : i \in 1..Len(StartupSteps) }

StageIndex(s) == CHOOSE i \in 1..Len(LoadStages) : LoadStages[i] = s

VARIABLES
    config,            \* environment-driven configuration (config.py)
    fs,                \* local storage: which of the index paths exist
    fs0,               \* local storage as the process found it at start
    store,             \* contents of the vector store under QDRANT_PATH
    db_files,          \* rows of indexed_files in the relational store
    _ready,            \* artifact_loader._ready
    _client,           \* query_engine._client: "None" or "open"
    _artifact_version, \* main._artifact_version
    pc,                \* position of the process: a stage, a startup step,
                       \* "serving" (after the lifespan's yield) or "stopped"
    ran,               \* how many times each stage / startup step has run
    failed,            \* the stage or step whose exception ended startup
    error,             \* the exception logged by the lifespan
    s3,                \* object-storage activity of load_artifact
    expected_sha256,   \* load_artifact local: digest of the manifest
    actual_sha256,     \* digest of the decrypted plaintext in scratch
    scratch,           \* the TemporaryDirectory is held
    extracted,         \* members tarfile.extractall wrote into index_dir
    resp,              \* the response to the last HTTP request
    eng                \* the query-engine call under way (NoEng: none)

vars == << config, fs, fs0, store, db_files, _ready, _client, _artifact_version,
           pc, ran, failed, error, s3, expected_sha256, actual_sha256,
           scratch, extracted, resp, eng >>

procVars == << _ready, _client, _artifact_version >>
envVars == << config, fs, fs0, store, db_files >>
loadVars == << s3, expected_sha256, actual_sha256, scratch, extracted >>

EmptyStore == [collection |-> FALSE, points |-> 0]

Stores ==
    { st \in [collection : BOOLEAN, points : 0..MaxPoints] :
        ~st.collection => st.points = 0 }

NoError == [kind |-> "none"]
NoResp == [endpoint |-> "none", raised |-> FALSE, calls |-> {}]
NoS3 == [client |-> FALSE, get_object |-> 0, download_file |-> 0]
NoEng == [op |-> "none"]

\* artifact_loader.py:21
ReadyInitTrue == TRUE
ReadyInit == FALSE

\* artifact_loader.py:24
is_ready_always == TRUE
is_ready == _ready

Init ==
    /\ config \in [access_key : BOOLEAN, secret_key : BOOLEAN,
                   encryption_key : BOOLEAN, version : Versions]
    /\ fs \in { f \in [index_dir : BOOLEAN, qdrant : BOOLEAN, state_db : BOOLEAN] :
                  (f.qdrant \/ f.state_db) => f.index_dir }
    /\ fs0 = fs
    /\ store \in { st \in Stores : ~fs.qdrant => st = EmptyStore }
    /\ db_files \in { n \in 0..MaxFiles : ~fs.state_db => n = 0 }
    /\ _ready = ReadyInit
    /\ _client = "None"
    /\ _artifact_version = "None"
    /\ pc = "mkdir"
    /\ ran = [s \in Steps |-> 0]
    /\ failed = "none"
    /\ error = NoError
    /\ s3 = NoS3
    /\ expected_sha256 = NoDigest
    /\ actual_sha256 = NoDigest
    /\ scratch = FALSE
    /\ extracted = {}
    /\ resp = NoResp
    /\ eng = NoEng

Run(stage) == ran' = [ran EXCEPT ![stage] = @ + 1]

\* An exception raised by `stage` leaves load_artifact (or the startup step),
\* is caught by the lifespan's `except Exception`, logged, and the lifespan
\* yields: the application serves with whatever state startup reached.
RaiseAndContinue(stage, err) ==
    /\ failed' = stage
    /\ error' = err
    /\ pc' = IF stage \in Stages /\ StageIndex(stage) < Len(LoadStages)
             THEN LoadStages[StageIndex(stage) + 1]
             ELSE "serving"
Raise(stage, err) ==
    /\ failed' = stage
    /\ error' = err
    /\ pc' = "serving"

Goto(next) ==
    /\ pc' = next
    /\ UNCHANGED << failed, error >>

\* ------------------------------------------------ load_artifact, by stage

\* index_dir.mkdir(parents=True, exist_ok=True): succeeds on an existing
\* directory; otherwise it creates the directory or raises OSError.
MkIndexDir ==
    /\ pc = "mkdir"
    /\ Run("mkdir")
    /\ \/ /\ fs' = [fs EXCEPT !.index_dir = TRUE]
          /\ Goto("check_local")
       \/ /\ ~fs.index_dir
          /\ fs' = fs
          /\ Raise("mkdir", [kind |-> "OSError"])
    /\ UNCHANGED << config, fs0, store, db_files, procVars, loadVars, resp, eng >>

\* config.QDRANT_PATH.exists() and config.STATE_DB_PATH.exists()
IndexPresentNeedsCredentials(f) ==
    f.qdrant /\ f.state_db /\ config.access_key /\ config.secret_key
IndexPresent(f) == f.qdrant /\ f.state_db

\* load_artifact returns to the lifespan, which records the configured
\* version and goes on to init_client().
ReturnReady ==
    /\ _ready' = TRUE
    /\ _artifact_version' = config.version
    /\ Goto("init_client")

CheckLocal ==
    /\ pc = "check_local"
    /\ Run("check_local")
    /\ IF IndexPresent(fs)
       THEN /\ ReturnReady
            /\ UNCHANGED _client
       ELSE /\ Goto("check_credentials")
            /\ UNCHANGED procVars
    /\ UNCHANGED << eng, envVars, loadVars, resp >>

CredentialsBothMissing == ~config.access_key /\ ~config.secret_key
\* not DO_SPACES_ACCESS_KEY or not DO_SPACES_SECRET_KEY
CredentialsMissing == ~config.access_key \/ ~config.secret_key

CheckCredentials ==
    /\ pc = "check_credentials"
    /\ Run("check_credentials")
    /\ IF CredentialsMissing
       THEN Raise("check_credentials", [kind |-> "credentials_required"])
       ELSE Goto("check_passphrase")
    /\ UNCHANGED << eng, envVars, procVars, loadVars, resp >>

\* The passphrase check, then boto3.client("s3", ...): building the client
\* sends nothing to object storage.
CheckPassphrase ==
    /\ pc = "check_passphrase"
    /\ Run("check_passphrase")
    /\ IF ~config.encryption_key
       THEN /\ Raise("check_passphrase", [kind |-> "encryption_key_required"])
            /\ s3' = s3
       ELSE /\ Goto("resolve_version")
            /\ s3' = [s3 EXCEPT !.client = TRUE]
    /\ UNCHANGED << eng, envVars, procVars, expected_sha256, actual_sha256,
                    scratch, extracted, resp >>

\* version == "latest": one get_object of latest-manifest.json, which may
\* raise (transport, JSON, missing key); otherwise the keys are derived.
ResolveVersion ==
    /\ pc = "resolve_version"
    /\ Run("resolve_version")
    /\ IF config.version = "latest"
       THEN /\ s3' = [s3 EXCEPT !.get_object = @ + 1]
            /\ \/ Goto("fetch_manifest")
               \/ Raise("resolve_version", [kind |-> "latest_manifest_failed"])
       ELSE /\ s3' = s3
            /\ Goto("fetch_manifest")
    /\ UNCHANGED << eng, envVars, procVars, expected_sha256, actual_sha256,
                    scratch, extracted, resp >>

FetchManifest ==
    /\ pc = "fetch_manifest"
    /\ Run("fetch_manifest")
    /\ s3' = [s3 EXCEPT !.get_object = @ + 1]
    /\ \/ /\ expected_sha256' \in Digests \cup {NoDigest}
          /\ Goto("download")
       \/ /\ expected_sha256' = expected_sha256
          /\ Raise("fetch_manifest", [kind |-> "manifest_failed"])
    /\ UNCHANGED << eng, envVars, procVars, actual_sha256, scratch, extracted, resp >>

\* TemporaryDirectory.__exit__: whether the scratch directory is still held
\* once the with-block is left, normally or (raised) by an exception.
ScratchKeptOnError(raised) == raised
ScratchAfterBlock(raised) == FALSE

\* Entering `with tempfile.TemporaryDirectory()` acquires the scratch
\* directory; an exception inside the block releases it on the way out.
Download ==
    /\ pc = "download"
    /\ Run("download")
    /\ s3' = [s3 EXCEPT !.download_file = @ + 1]
    /\ \/ /\ scratch' = TRUE
          /\ Goto("decrypt")
       \/ /\ scratch' = ScratchAfterBlock(TRUE)
          /\ Raise("download", [kind |-> "download_failed"])
    /\ UNCHANGED << eng, envVars, procVars, expected_sha256, actual_sha256,
                    extracted, resp >>

\* openssl enc -d ...: returncode 0 leaves a plaintext (of some digest) in
\* scratch; a non-zero returncode raises "Decryption failed".
Decrypt ==
    /\ pc = "decrypt"
    /\ Run("decrypt")
    /\ \/ /\ actual_sha256' \in Digests
          /\ scratch' = scratch
          /\ Goto("verify_checksum")
       \/ /\ actual_sha256' = actual_sha256
          /\ scratch' = ScratchAfterBlock(TRUE)
          /\ Raise("decrypt", [kind |-> "decryption_failed"])
    /\ UNCHANGED << eng, envVars, procVars, s3, expected_sha256, extracted, resp >>

\* actual_sha256 != expected_sha256 raises
ChecksumNotCompared(expected, actual) == TRUE
ChecksumOk(expected, actual) == actual = expected

\* `if expected_sha256:` an absent digest skips the stage.
VerifyChecksum ==
    /\ pc = "verify_checksum"
    /\ IF expected_sha256 = NoDigest
       THEN /\ ran' = ran
            /\ scratch' = scratch
            /\ Goto("extract")
       ELSE /\ Run("verify_checksum")
            /\ IF ChecksumOk(expected_sha256, actual_sha256)
               THEN /\ scratch' = scratch
                    /\ Goto("extract")
               ELSE /\ scratch' = ScratchAfterBlock(TRUE)
                    /\ Raise("verify_checksum",
                             [kind |-> "checksum_mismatch",
                              expected |-> expected_sha256,
                              actual |-> actual_sha256])
    /\ UNCHANGED << eng, envVars, procVars, s3, expected_sha256, actual_sha256,
                    extracted, resp >>

\* What the plaintext archive holds: which of the two expected paths, and the
\* contents of the stores under them.
Archives ==
    { a \in [qdrant : BOOLEAN, state_db : BOOLEAN, store : Stores,
             files : 0..MaxFiles] :
        /\ ~a.qdrant => a.store = EmptyStore
        /\ ~a.state_db => a.files = 0 }

Members(a) ==
    (IF a.qdrant THEN {"qdrant"} ELSE {}) \cup
    (IF a.state_db THEN {"state.db"} ELSE {})

\* tarfile.open + extractall(index_dir): on success every member is written;
\* an exception (not a gzip tar, disk full, ...) may leave any part of them.
\* Leaving the with-block releases the scratch directory either way.
Extract ==
    /\ pc = "extract"
    /\ Run("extract")
    /\ \E a \in Archives :
       \E ok \in BOOLEAN :
       \E written \in SUBSET Members(a) :
          /\ ok => written = Members(a)
          /\ extracted' = written
          /\ fs' = [fs EXCEPT !.qdrant = @ \/ "qdrant" \in written,
                              !.state_db = @ \/ "state.db" \in written]
          /\ store' = IF "qdrant" \in written THEN a.store ELSE store
          /\ db_files' = IF "state.db" \in written THEN a.files ELSE db_files
          /\ scratch' = ScratchAfterBlock(~ok)
          /\ IF ok
             THEN Goto("verify_layout")
             ELSE Raise("extract", [kind |-> "extraction_failed"])
    /\ UNCHANGED << config, fs0, procVars, s3, expected_sha256, actual_sha256, resp,
                    eng >>

VerifyLayout ==
    /\ pc = "verify_layout"
    /\ Run("verify_layout")
    /\ IF ~fs.qdrant
       THEN /\ Raise("verify_layout", [kind |-> "qdrant_not_found"])
            /\ UNCHANGED procVars
       ELSE IF ~fs.state_db
       THEN /\ Raise("verify_layout", [kind |-> "state_db_not_found"])
            /\ UNCHANGED procVars
       ELSE /\ ReturnReady
            /\ UNCHANGED _client
    /\ UNCHANGED << eng, envVars, loadVars, resp >>

\* ------------------------------------------------------ lifespan, startup

\* init_client(): an existing handle is returned as is; otherwise
\* QdrantClient(path=...) opens one, or raises.
InitClient ==
    /\ pc = "init_client"
    /\ Run("init_client")
    /\ IF _client # "None"
       THEN /\ _client' = _client
            /\ Goto("ensure_collection")
       ELSE \/ /\ _client' = "open"
               /\ Goto("ensure_collection")
            \/ /\ _client' = _client
               /\ Raise("init_client", [kind |-> "client_failed"])
    /\ UNCHANGED << eng, envVars, _ready, _artifact_version, loadVars, resp >>

\* ensure_collection(): collection_exists may raise; a missing collection is
\* created with create_collection, which may raise as well.
EnsureCollection ==
    /\ pc = "ensure_collection"
    /\ Run("ensure_collection")
    /\ IF _client = "None"
       THEN /\ store' = store
            /\ Raise("ensure_collection", [kind |-> "client_not_initialized"])
       ELSE \/ /\ store' = store
               /\ Raise("ensure_collection", [kind |-> "collection_exists_failed"])
            \/ /\ store.collection
               /\ store' = store
               /\ Goto("serving")
            \/ /\ ~store.collection
               /\ store' = [store EXCEPT !.collection = TRUE]
               /\ Goto("serving")
            \/ /\ ~store.collection
               /\ store' = store
               /\ Raise("ensure_collection", [kind |-> "create_collection_failed"])
    /\ UNCHANGED << config, fs, fs0, db_files, procVars, loadVars, resp, eng >>

\* ------------------------------------------------------------ HTTP handlers

Outcomes == {"ok", "raise"}

\* What a request handler leaves alone: everything but its response.
handlerFrame == << envVars, procVars, pc, ran, failed, error, loadVars, eng >>

\* GET /healthz
healthz ==
    [endpoint |-> "healthz", raised |-> FALSE, calls |-> {},
     status |-> 200, content |-> "ok", was_ready |-> _ready]

Healthz ==
    /\ pc = "serving"
    /\ resp' = healthz
    /\ UNCHANGED handlerFrame

\* GET /readyz. `probe` is what collection_exists does when it is called:
\* it raises ("raise") or answers from the store ("ok").
readyz_optimistic(probe) ==
    [endpoint |-> "readyz", raised |-> FALSE,
     calls |-> IF is_ready /\ _client # "None" THEN {"collection_exists"} ELSE {},
     status |-> IF is_ready THEN 200 ELSE 503,
     content |-> IF is_ready THEN "ready" ELSE "not ready",
     was_ready |-> _ready, had_client |-> _client # "None", probe |-> probe,
     collection |-> store.collection]
readyz(probe) ==
    LET base == [endpoint |-> "readyz", raised |-> FALSE, calls |-> {},
                 was_ready |-> _ready, had_client |-> _client # "None",
                 probe |-> probe, collection |-> store.collection]
        with(r, s, c, k) ==
            [r EXCEPT !.status = s, !.content = c, !.calls = k]
        full == base @@ [status |-> 0, content |-> ""]
    IN  IF ~is_ready
        THEN with(full, 503, "not ready", {})
        ELSE IF _client = "None"
        THEN with(full, 503, "qdrant unavailable", {})
        ELSE IF probe = "raise"
        THEN with(full, 503, "qdrant unavailable", {"collection_exists"})
        ELSE IF ~store.collection
        THEN with(full, 503, "collection not found", {"collection_exists"})
        ELSE with(full, 200, "ready", {"collection_exists"})

Readyz ==
    /\ pc = "serving"
    /\ \E probe \in Outcomes : resp' = readyz(probe)
    /\ UNCHANGED handlerFrame

\* search_messages(): get_client, the filter (_date_to_unix raises ValueError
\* on a start_date / end_date that is no ISO date), then the embedding call,
\* the similarity search and, for every result kept, the paged scans of the
\* enrichment. `ext` gives the outcome of each step that may raise, `hits`
\* the results kept.
search_messages(ext, hits) ==
    IF _client = "None"
    THEN [raised |-> TRUE, calls |-> {}, count |-> 0]
    ELSE IF ext.dates = "raise"
    THEN [raised |-> TRUE, calls |-> {}, count |-> 0]
    ELSE IF ext.embed = "raise"
    THEN [raised |-> TRUE, calls |-> {"embeddings"}, count |-> 0]
    ELSE IF ext.search = "raise"
    THEN [raised |-> TRUE, calls |-> {"embeddings", "query_points"}, count |-> 0]
    ELSE IF hits > 0 /\ ext.scan = "raise"
    THEN [raised |-> TRUE, calls |-> {"embeddings", "query_points", "scroll"},
          count |-> 0]
    ELSE [raised |-> FALSE,
          calls |-> {"embeddings", "query_points"} \cup
                    (IF hits > 0 THEN {"scroll"} ELSE {}),
          count |-> hits]

\* POST /query: an exception of search_messages is not caught by the handler.
query(ext, hits) ==
    LET base == [endpoint |-> "query", was_ready |-> _ready, ext |-> ext]
    IN  IF ~is_ready
        THEN base @@ [raised |-> FALSE, calls |-> {}, engine |-> FALSE,
                      ok |-> FALSE, count |-> 0]
        ELSE LET results == search_messages(ext, hits)
             IN  IF results.raised
                 THEN base @@ [raised |-> TRUE, calls |-> results.calls,
                               engine |-> TRUE, ok |-> FALSE, count |-> 0]
                 ELSE base @@ [raised |-> FALSE, calls |-> results.calls,
                               engine |-> TRUE, ok |-> TRUE,
                               count |-> results.count]

ExtOutcomes ==
    [dates : Outcomes, embed : Outcomes, search : Outcomes, scan : Outcomes]

Query ==
    /\ pc = "serving"
    /\ \E ext \in ExtOutcomes : \E hits \in 0..MaxHits : resp' = query(ext, hits)
    /\ UNCHANGED handlerFrame

\* get_stats(): the relational aggregates (sqlite may raise), then the point
\* count inside try/except Exception.
get_stats_count_propagates(sql, cnt) ==
    IF sql = "raise" \/ _client = "None" \/ cnt = "raise"
    THEN [raised |-> TRUE, calls |-> {"sqlite"}, indexed_files |-> 0,
          qdrant_points |-> 0]
    ELSE [raised |-> FALSE, calls |-> {"sqlite", "count"},
          indexed_files |-> db_files, qdrant_points |-> store.points]
get_stats(sql, cnt) ==
    IF sql = "raise"
    THEN [raised |-> TRUE, calls |-> {"sqlite"}, indexed_files |-> 0,
          qdrant_points |-> 0]
    ELSE [raised |-> FALSE,
          calls |-> {"sqlite"} \cup (IF _client = "None" THEN {} ELSE {"count"}),
          indexed_files |-> db_files,
          qdrant_points |-> IF _client = "None" \/ cnt = "raise"
                            THEN 0 ELSE store.points]

\* GET /stats
stats(sql, cnt) ==
    LET base == [endpoint |-> "stats", was_ready |-> _ready,
                 had_client |-> _client # "None", sql |-> sql, cnt |-> cnt]
    IN  IF ~is_ready
        THEN base @@ [raised |-> FALSE, calls |-> {}, engine |-> FALSE,
                      ok |-> FALSE, indexed_files |-> 0, qdrant_points |-> 0]
        ELSE LET raw == get_stats(sql, cnt)
             IN  base @@ [raised |-> raw.raised, calls |-> raw.calls,
                          engine |-> TRUE, ok |-> ~raw.raised,
                          indexed_files |-> raw.indexed_files,
                          qdrant_points |-> raw.qdrant_points]

Stats ==
    /\ pc = "serving"
    /\ \E sql \in Outcomes : \E cnt \in Outcomes : resp' = stats(sql, cnt)
    /\ UNCHANGED handlerFrame

\* Lifespan shutdown: close_client() closes the handle (an exception of
\* close is swallowed) and resets it to None.
Shutdown ==
    /\ pc = "serving"
    /\ pc' = "stopped"
    /\ _client' = "None"
    /\ UNCHANGED << eng, envVars, _ready, _artifact_version, ran, failed, error,
                    loadVars, resp >>

Next ==
    \/ MkIndexDir
    \/ CheckLocal
    \/ CheckCredentials
    \/ CheckPassphrase
    \/ ResolveVersion
    \/ FetchManifest
    \/ Download
    \/ Decrypt
    \/ VerifyChecksum
    \/ Extract
    \/ VerifyLayout
    \/ InitClient
    \/ EnsureCollection
    \/ Healthz
    \/ Readyz
    \/ Query
    \/ Stats
    \/ Shutdown

Spec == Init /\ [][Next]_vars

\* ------------------------------------------------------------- properties

LoadReturned == pc \in {"init_client", "ensure_collection", "serving", "stopped"}
LaterSteps(s) ==
    { LoadStages[i] : i \in (StageIndex(s) + 1)..Len(LoadStages) }
      \cup {"init_client", "ensure_collection"}

\* C1: the readiness flag starts false, and once it is true every step of
\* every operation (provisioning, the lifespan, the four endpoints, shutdown)
\* leaves it true: it changes at most once, from false to true.
C1_ReadyOnceMonotone == (~_ready) /\ [][_ready => _ready']_vars

C1_Witness == _ready /\ pc = "stopped" /\ resp.endpoint = "query"

\* C2: the pipeline fails closed. Once a stage of load_artifact has failed,
\* no later stage (nor a later startup step) has run or ever runs, no stage
\* runs again, no stage has run twice, and the readiness flag is false.
C2_FailClosed ==
    /\ [](\A s \in Stages : ran[s] <= 1)
    /\ [](failed \in Stages =>
            /\ ~_ready
            /\ ran[failed] = 1
            /\ \A s \in LaterSteps(failed) : ran[s] = 0)
    /\ [][(failed \in Stages) => (ran' = ran /\ failed' = failed /\ ~_ready')]_vars

C2_Witness == failed = "extract" /\ pc = "stopped" /\ resp.endpoint = "readyz"

\* C3: with an expected digest in the manifest, extraction has run only if
\* the digest of the decrypted plaintext equals it; a mismatch aborts the
\* pipeline at the checksum stage with both digests in the error, nothing
\* extracted, and readiness false.
C3_ChecksumGate ==
    /\ (ran["extract"] > 0 /\ expected_sha256 # NoDigest)
          => actual_sha256 = expected_sha256
    /\ (/\ expected_sha256 # NoDigest
        /\ actual_sha256 # NoDigest
        /\ actual_sha256 # expected_sha256
        /\ pc # "verify_checksum")
          => /\ failed = "verify_checksum"
             /\ error = [kind |-> "checksum_mismatch",
                         expected |-> expected_sha256,
                         actual |-> actual_sha256]
             /\ ran["extract"] = 0
             /\ extracted = {}
             /\ fs.qdrant = fs0.qdrant /\ fs.state_db = fs0.state_db
             /\ ~_ready

C3_Witness ==
    /\ failed = "verify_checksum"
    /\ expected_sha256 = "d1" /\ actual_sha256 = "d2"
    /\ pc = "serving"

\* C4: if both index paths exist when provisioning starts, load_artifact goes
\* straight to ready: no object-storage client or call, no decryption, no
\* checksum, no extraction, and readiness true, whatever the credentials.
C4_LocalPresenceShortcut ==
    (fs0.qdrant /\ fs0.state_db /\ pc \notin {"mkdir", "check_local"})
       => /\ _ready
          /\ s3 = NoS3
          /\ \A s \in LaterSteps("check_local") \ {"init_client", "ensure_collection"} :
                ran[s] = 0
          /\ fs = fs0
          /\ failed \notin Stages

C4_Witness ==
    /\ fs0.qdrant /\ fs0.state_db
    /\ ~config.access_key /\ ~config.encryption_key
    /\ _ready /\ pc = "serving"

\* C5: a POST /query or GET /stats handled while the readiness flag is false
\* returns ok=false without calling the embedding service, the vector store
\* or the relational store; the engine is entered only when the flag is true.
C5_ReadinessGate ==
    resp.endpoint \in {"query", "stats"} =>
        /\ ~resp.was_ready =>
              (~resp.raised /\ resp.ok = FALSE /\ resp.calls = {} /\ ~resp.engine)
        /\ resp.engine => resp.was_ready

C5_Witness ==
    /\ resp.endpoint = "query" /\ ~resp.was_ready /\ resp.ok = FALSE
    /\ failed = "decrypt"

\* C6 (as claimed): a POST /query handled while ready whose embedding call,
\* similarity search or page fetch fails returns a structured not-ok
\* response; no exception leaves the handler.
CallFailed(r) ==
    \/ "embeddings" \in r.calls /\ r.ext.embed = "raise"
    \/ "query_points" \in r.calls /\ r.ext.search = "raise"
    \/ "scroll" \in r.calls /\ r.ext.scan = "raise"

C6_QueryFailureStructured ==
    (resp.endpoint = "query" /\ resp.was_ready /\ CallFailed(resp))
       => (~resp.raised /\ resp.ok = FALSE)

\* C7 (as claimed): no partial readiness. When the application serves, a true
\* readiness flag means the handle is open and the collection check passed,
\* and a failed startup step means the flag is false.
C7_NoPartialReadiness ==
    pc = "serving" =>
        /\ _ready => (/\ _client = "open"
                      /\ ran["ensure_collection"] = 1
                      /\ failed = "none")
        /\ failed # "none" => ~_ready

\* C8 (as claimed): once load_artifact has returned with the index unpacked
\* or found in place, no step of the service changes the vector store or the
\* relational store.
C8_IndexNeverMutated ==
    [][(LoadReturned /\ failed \notin Stages)
          => (store' = store /\ db_files' = db_files)]_vars

\* C9: GET /readyz answers 200 exactly when the readiness flag is true, the
\* handle is present and collection_exists returns true, and 503 otherwise
\* (flag false, collection missing, handle missing, probe raising);
\* GET /healthz answers 200 in every state.
C9_Probes ==
    /\ resp.endpoint = "readyz" =>
          /\ ~resp.raised
          /\ resp.status \in {200, 503}
          /\ resp.status = 200 <=>
                (/\ resp.was_ready
                 /\ resp.had_client
                 /\ resp.probe = "ok"
                 /\ resp.collection)
    /\ resp.endpoint = "healthz" => (~resp.raised /\ resp.status = 200)

C9_Witness ==
    /\ resp.endpoint = "readyz" /\ resp.was_ready /\ resp.had_client
    /\ resp.status = 503 /\ resp.content = "collection not found"

\* C10: when get_stats has read the relational aggregates, a missing handle
\* or a raising count call does not fail it: the aggregates are returned and
\* the point count is 0.
C10_CountFailureIsZero ==
    (/\ resp.endpoint = "stats" /\ resp.engine /\ resp.sql = "ok"
     /\ (~resp.had_client \/ resp.cnt = "raise"))
       => /\ ~resp.raised
          /\ resp.ok
          /\ resp.qdrant_points = 0
          /\ resp.indexed_files = db_files

C10_Witness ==
    /\ resp.endpoint = "stats" /\ resp.engine /\ resp.sql = "ok"
    /\ resp.had_client /\ resp.cnt = "raise"
    /\ store.points > 0 /\ resp.indexed_files > 0

\* ====================================================== query engine, pure
\* The functions of query_engine.py are checked under specifications of
\* their own: the service is ready and serving, `eng` holds the arguments
\* of one call, and one action applies the function to them.

svcVars == << config, fs, fs0, store, db_files, _ready, _client,
              _artifact_version, pc, ran, failed, error, s3, expected_sha256,
              actual_sha256, scratch, extracted, resp >>

\* A process that found its index in place, started and was asked nothing.
ServingReady ==
    /\ config = [access_key |-> TRUE, secret_key |-> TRUE,
                 encryption_key |-> TRUE, version |-> "latest"]
    /\ fs = [index_dir |-> TRUE, qdrant |-> TRUE, state_db |-> TRUE]
    /\ fs0 = fs
    /\ store = [collection |-> TRUE, points |-> MaxPoints]
    /\ db_files = MaxFiles
    /\ _ready = TRUE
    /\ _client = "open"
    /\ _artifact_version = "latest"
    /\ pc = "serving"
    /\ ran = [s \in Steps |->
                IF s \in {"mkdir", "check_local", "init_client", "ensure_collection"}
                THEN 1 ELSE 0]
    /\ failed = "none"
    /\ error = NoError
    /\ s3 = NoS3
    /\ expected_sha256 = NoDigest
    /\ actual_sha256 = NoDigest
    /\ scratch = FALSE
    /\ extracted = {}
    /\ resp = NoResp

\* ------------------------------------------------- tokens, lexical overlap
MaxTextLen == 3     \* characters of a query or a message text

\* Characters of a text: a lowercase letter, an uppercase letter, a blank.
Chars == {"a", "B", " "}
\* str.lower()
LowerChar(c) == IF c = "B" THEN "b" ELSE c
\* TOKEN_RE = [a-z0-9#@._-]+ : the characters a token is made of
TokenChars == {"a", "b", "0", "#", "@", ".", "_", "-"}

Texts == UNION { [1..n -> Chars] : n \in 0..MaxTextLen }

Lower(text) == [i \in 1..Len(text) |-> LowerChar(text[i])]

\* re.findall: the maximal runs of token characters, left to right.
\* `cur` is the run being read, `acc` the tokens found so far.
RECURSIVE FindAll(_, _, _, _)
FindAll(text, i, cur, acc) ==
    IF i > Len(text)
    THEN IF cur = << >> THEN acc ELSE Append(acc, cur)
    ELSE IF text[i] \in TokenChars
    THEN FindAll(text, i + 1, Append(cur, text[i]), acc)
    ELSE FindAll(text, i + 1, << >>,
                 IF cur = << >> THEN acc ELSE Append(acc, cur))

SeqToSet(s) == { s[i] : i \in 1..Len(s) }

\* _keyword_terms(query): set(TOKEN_RE.findall(query.lower()))
_keyword_terms(text) == SeqToSet(FindAll(Lower(text), 1, << >>, << >>))

\* A float that is a ratio of two integers: num / den, den > 0.
Ratio(n, d) == [num |-> n, den |-> d]
Zero == Ratio(0, 1)

\* _keyword_overlap(query_terms, text)
_keyword_overlap_by_text(query_terms, text) ==
    LET text_terms == _keyword_terms(text)
    IN  IF query_terms = {} THEN Zero
        ELSE IF text_terms = {} THEN Zero
        ELSE Ratio(Cardinality(query_terms \cap text_terms),
                   Cardinality(text_terms))
_keyword_overlap(query_terms, text) ==
    LET text_terms == _keyword_terms(text)
    IN  IF query_terms = {} THEN Zero
        ELSE IF text_terms = {} THEN Zero
        ELSE Ratio(Cardinality(query_terms \cap text_terms),
                   Cardinality(query_terms))

InitOverlap ==
    /\ ServingReady
    /\ \E q \in Texts : \E x \in Texts :
          eng = [op |-> "overlap", query |-> q, text |-> x, done |-> FALSE]

\* lexical = _keyword_overlap(_keyword_terms(query), payload.get("text", ""))
KeywordOverlap ==
    /\ eng.op = "overlap" /\ ~eng.done
    /\ eng' = [op |-> "overlap", query |-> eng.query, text |-> eng.text,
               done |-> TRUE,
               query_terms |-> _keyword_terms(eng.query),
               text_terms |-> _keyword_terms(eng.text),
               lexical |-> _keyword_overlap(_keyword_terms(eng.query), eng.text)]
    /\ UNCHANGED svcVars

NextOverlap == KeywordOverlap

SpecOverlap == InitOverlap /\ [][NextOverlap]_vars

\* C19: for the token set Q of the query and T of the candidate text, the
\* lexical overlap is |Q \cap T| / |Q|; it is 0 when Q is empty, 0 when T is
\* empty, 1 when Q is non-empty and within T, and always between 0 and 1.
C19_LexicalOverlap ==
    (eng.op = "overlap" /\ eng.done) =>
        LET Q == eng.query_terms
            T == eng.text_terms
            r == eng.lexical
        IN  /\ r.den > 0 /\ 0 <= r.num /\ r.num <= r.den
            /\ Q = {} => r.num = 0
            /\ T = {} => r.num = 0
            /\ Q # {} => r.num * Cardinality(Q) = Cardinality(Q \cap T) * r.den
            /\ (Q # {} /\ Q \subseteq T) => r.num = r.den

\* two query tokens, one of them in the text: overlap 1/2
C19_Witness ==
    /\ eng.op = "overlap" /\ eng.done
    /\ eng.query = <<"a", " ", "B">> /\ eng.text = <<"B", " ", "B">>
    /\ eng.lexical = Ratio(1, 2)

\* -------------------------------------------------------- date-range filter
MaxDay == 2             \* dates are the days 0..MaxDay after the epoch
TicksPerSecond == 2     \* ts_float is a float: it is kept in 1/TicksPerSecond s

SECONDS_PER_DAY == 86400
END_OF_DAY == 86399     \* "T23:59:59+00:00"

\* An Optional[str] date: << >> for None or "", <<d>> for the ISO date of day d.
OptDates == { << >> } \cup { <<d>> : d \in 0..MaxDay }

\* _date_to_unix(value, end_of_day): epoch seconds of 00:00:00 or 23:59:59 UTC
_date_to_unix(day, end_of_day) ==
    day * SECONDS_PER_DAY + (IF end_of_day THEN END_OF_DAY ELSE 0)

\* The conditions search_messages appends for start_date / end_date: none when
\* both are absent, else one Range on ts_float with gte and / or lte.
DateConditions(start_date, end_date) ==
    IF start_date # << >> \/ end_date # << >>
    THEN << [key |-> "ts_float",
             gte |-> IF start_date # << >>
                     THEN << _date_to_unix(start_date[1], FALSE) >> ELSE << >>,
             lte |-> IF end_date # << >>
                     THEN << _date_to_unix(end_date[1], TRUE) >> ELSE << >>] >>
    ELSE << >>

\* Range(gte, lte) of the vector store on a ts_float given in ticks.
RangeAdmits(cond, ts) ==
    /\ cond.gte # << >> => ts >= cond.gte[1] * TicksPerSecond
    /\ cond.lte # << >> => ts <= cond.lte[1] * TicksPerSecond

FilterAdmits(conds, ts) == \A i \in 1..Len(conds) : RangeAdmits(conds[i], ts)

\* ts_float values at and next to the start and the end of each day.
TsSamples ==
    { t \in UNION { { d * SECONDS_PER_DAY * TicksPerSecond + k :
                        k \in {-1, 0, 1} } \cup
                    { (d * SECONDS_PER_DAY + END_OF_DAY) * TicksPerSecond + k :
                        k \in {-1, 0, 1} } : d \in 0..MaxDay } : t >= 0 }

InitDate ==
    /\ ServingReady
    /\ \E s \in OptDates : \E e \in OptDates : \E t \in TsSamples :
          eng = [op |-> "date", start_date |-> s, end_date |-> e, ts |-> t,
                 done |-> FALSE]

BuildDateFilter ==
    /\ eng.op = "date" /\ ~eng.done
    /\ eng' = [op |-> "date", start_date |-> eng.start_date,
               end_date |-> eng.end_date, ts |-> eng.ts, done |-> TRUE,
               conditions |-> DateConditions(eng.start_date, eng.end_date),
               admitted |-> FilterAdmits(
                   DateConditions(eng.start_date, eng.end_date), eng.ts)]
    /\ UNCHANGED svcVars

NextDate == BuildDateFilter

SpecDate == InitDate /\ [][NextDate]_vars

\* ts (in ticks) falls on day d of the UTC calendar or later / earlier
OnOrAfterDay(ts, d) == ts >= d * SECONDS_PER_DAY * TicksPerSecond
BeforeEndOfDay(ts, d) == ts < (d + 1) * SECONDS_PER_DAY * TicksPerSecond

\* C18 (as claimed): the range built from start_date / end_date admits a
\* message iff its ts_float lies on one of the UTC days start_date..end_date
\* (an absent bound imposing nothing), and no range condition is built when
\* both are absent.
C18_DateRangeInclusive ==
    (eng.op = "date" /\ eng.done) =>
        /\ eng.admitted <=>
              (/\ eng.start_date # << >> => OnOrAfterDay(eng.ts, eng.start_date[1])
               /\ eng.end_date # << >> => BeforeEndOfDay(eng.ts, eng.end_date[1]))
        /\ (eng.start_date = << >> /\ eng.end_date = << >>) => eng.conditions = << >>

\* What the code does hold to: the bounds are 00:00:00 of start_date and
\* 23:59:59 of end_date, both inclusive.
DateRangeWholeSeconds ==
    (eng.op = "date" /\ eng.done) =>
        /\ eng.admitted <=>
              (/\ eng.start_date # << >> => OnOrAfterDay(eng.ts, eng.start_date[1])
               /\ eng.end_date # << >> =>
                     eng.ts <= (eng.end_date[1] * SECONDS_PER_DAY + END_OF_DAY)
                                  * TicksPerSecond)
        /\ (eng.start_date = << >> /\ eng.end_date = << >>) => eng.conditions = << >>

\* ------------------------------------------------------------ stable sorting
\* sorted(seq, key=...) / list.sort(key=...): a stable sort by an integer key.
\* Order(keys) is the sorted order as a sequence of positions of `keys`.

\* The positions `sorted` (already in order) with position i put in: after
\* every position whose key is not greater, so that equal keys keep their order.
RECURSIVE InsertByKey(_, _, _)
InsertByKey(sorted, i, keys) ==
    IF sorted = << >> THEN << i >>
    ELSE IF keys[i] < keys[Head(sorted)]
    THEN << i >> \o sorted
    ELSE << Head(sorted) >> \o InsertByKey(Tail(sorted), i, keys)

RECURSIVE OrderUpTo(_, _)
OrderUpTo(keys, n) ==
    IF n = 0 THEN << >> ELSE InsertByKey(OrderUpTo(keys, n - 1), n, keys)

Order(keys) == OrderUpTo(keys, Len(keys))

\* sorted(seq, key=k): seq rearranged by the order of its keys
SortedByKeys(seq, keys) == [j \in 1..Len(seq) |-> seq[Order(keys)[j]]]

\* seq[start:end] with 0 <= start, end <= len(seq) (Python, zero-based, half-open)
Slice(seq, start, end) ==
    IF end <= start THEN << >> ELSE SubSeq(seq, start + 1, end)

Min(a, b) == IF a <= b THEN a ELSE b
Max(a, b) == IF a >= b THEN a ELSE b

\* ------------------------------------------------ vector store: paged scroll
\* A point's payload. `ts` identifies the message: the file and the index.
Msg(file, index, channel, thread, tsf) ==
    [source_file |-> file, message_index |-> index, channel |-> channel,
     channel_lower |-> Lower(channel), thread_ts |-> thread, ts_float |-> tsf,
     ts |-> << file, index >>]

\* A cursor (next_page_offset): << >> for None, <<p>> for "resume after the
\* first p matching records".
NoCursor == << >>

\* client.scroll(scroll_filter, limit, offset): the records of `matching` (the
\* points passing the filter, in the order the store scans them) from the
\* cursor on. The store decides how many to return, at most `limit`, and
\* answers either with no cursor when none is left, or with a cursor.
ScrollPages(matching, limit, offset) ==
    LET from == IF offset = NoCursor THEN 0 ELSE offset[1]
        left == Len(matching) - from
    IN  IF left = 0
        THEN { [batch |-> << >>, offset |-> NoCursor] }
        ELSE { [batch |-> Slice(matching, from, from + k),
                offset |-> IF from + k < Len(matching) THEN << from + k >> ELSE c] :
               k \in 1..Min(limit, left),
               c \in { NoCursor, << Len(matching) >> } }

\* ------------------------------------- context window: _get_source_window
MaxMsgs == 10       \* messages of the source file

WINDOW_PAGE_LIMIT == 500    \* scroll(limit=500)
BEFORE == 1                 \* search_messages: before=1
AFTER == 2                  \* search_messages: after=2

\* The channel name "Ba" and the thread id used by the corpora below.
ChannelBa == << "B", "a" >>
ChannelAb == << "a", "B" >>

\* The points of the store for a source file "f1" of n messages with the
\* indices base..base+n-1, scanned in ascending or descending index order,
\* after one point of another file that carries the target's index.
WindowCorpus(n, base, target, order) ==
    << Msg("f2", target, ChannelBa, "t0", 0) >> \o
    [j \in 1..n |->
        LET idx == IF order = "asc" THEN base + j - 1 ELSE base + n - j
        IN  Msg("f1", idx, ChannelBa, "t0", idx)]

\* scroll_filter: must source_file == value
MatchingFile(corpus, file) == SelectSeq(corpus, LAMBDA m : m.source_file = file)

\* The loop goes on after a page: it breaks on an empty page (`if not batch`)
\* and on a null cursor (`if offset is None`).
ScanContinuesOnFullPage(batch, offset) == Len(batch) >= WINDOW_PAGE_LIMIT
ScanContinues(batch, offset) == batch # << >> /\ offset # NoCursor

\* The dict built for every point of the slice.
Snapshot(p) == [channel |-> p.channel, ts |-> p.ts]

\* The positions (1-based) of `ordered` whose message_index is the target.
PositionsOf(ordered, message_index) ==
    { j \in 1..Len(ordered) : ordered[j].message_index = message_index }

\* Lines 149-178: sort by message_index, find the first position of the
\* target, slice [pos - before, pos + after + 1) clipped, project.
SourceWindowAfterOne(points, message_index, before, after) ==
    IF points = << >> THEN << >>
    ELSE LET ordered == SortedByKeys(points,
                            [j \in 1..Len(points) |-> points[j].message_index])
             found == PositionsOf(ordered, message_index)
         IN  IF found = {} THEN << >>
             ELSE LET current_pos == (CHOOSE j \in found : \A k \in found : j <= k) - 1
                      start == Max(0, current_pos - before)
                      end == Min(Len(ordered), current_pos + after)
                      cut == Slice(ordered, start, end)
                  IN  [j \in 1..Len(cut) |-> Snapshot(cut[j])]
SourceWindowUnsorted(points, message_index, before, after) ==
    IF points = << >> THEN << >>
    ELSE LET ordered == points
             found == PositionsOf(ordered, message_index)
         IN  IF found = {} THEN << >>
             ELSE LET current_pos == (CHOOSE j \in found : \A k \in found : j <= k) - 1
                      start == Max(0, current_pos - before)
                      end == Min(Len(ordered), current_pos + after + 1)
                      cut == Slice(ordered, start, end)
                  IN  [j \in 1..Len(cut) |-> Snapshot(cut[j])]
SourceWindow(points, message_index, before, after) ==
    IF points = << >> THEN << >>
    ELSE LET ordered == SortedByKeys(points,
                            [j \in 1..Len(points) |-> points[j].message_index])
             found == PositionsOf(ordered, message_index)
         IN  IF found = {} THEN << >>
             ELSE LET current_pos == (CHOOSE j \in found : \A k \in found : j <= k) - 1
                      start == Max(0, current_pos - before)
                      end == Min(Len(ordered), current_pos + after + 1)
                      cut == Slice(ordered, start, end)
                  IN  [j \in 1..Len(cut) |-> Snapshot(cut[j])]

\* _get_source_window(source_file="f1", message_index=target, 1, 2) starts:
\* points = [], offset = None. `calls` counts the scroll calls, `requested`
\* is the cursor passed to the last one, `last_size` the size of its page.
InitWindow ==
    /\ ServingReady
    /\ \E n \in 0..MaxMsgs : \E base \in {0, 3} : \E t \in 0..n :
       \E order \in {"asc", "desc"} :
          eng = [op |-> "window", pc |-> "scroll",
                 n |-> n, base |-> base,
                 source_file |-> "f1", message_index |-> base + t,
                 corpus |-> WindowCorpus(n, base, base + t, order),
                 points |-> << >>, offset |-> NoCursor,
                 calls |-> 0, requested |-> NoCursor, last_size |-> 0,
                 result |-> << >>]

\* One turn of the `while True` loop: a scroll with the current cursor, then
\* the two break tests.
WindowScroll ==
    /\ eng.op = "window" /\ eng.pc = "scroll"
    /\ \E page \in ScrollPages(MatchingFile(eng.corpus, eng.source_file),
                               WINDOW_PAGE_LIMIT, eng.offset) :
          eng' = [eng EXCEPT
                    !.calls = @ + 1,
                    !.requested = eng.offset,
                    !.last_size = Len(page.batch),
                    !.points = @ \o page.batch,
                    !.offset = page.offset,
                    !.pc = IF ScanContinues(page.batch, page.offset)
                           THEN "scroll" ELSE "slice"]
    /\ UNCHANGED svcVars

\* After the loop: sort, locate, slice, return.
WindowSlice ==
    /\ eng.op = "window" /\ eng.pc = "slice"
    /\ eng' = [eng EXCEPT
                 !.result = SourceWindow(eng.points, eng.message_index,
                                         BEFORE, AFTER),
                 !.pc = "done"]
    /\ UNCHANGED svcVars

NextWindow == WindowScroll \/ WindowSlice

SpecWindow == InitWindow /\ [][NextWindow]_vars

\* The message indices of a context, in order (ts is << file, index >>).
IndicesOf(context) == [j \in 1..Len(context) |-> context[j].ts[2]]
\* The integers a..b as a sequence (empty when b < a).
Ints(a, b) == [j \in 1..(b - a + 1) |-> a + j - 1]
FromFile(context, file) == \A j \in 1..Len(context) : context[j].ts[1] = file

WindowDone == eng.op = "window" /\ eng.pc = "done"

\* C12: for a source file with the indices 0..n-1 and a result at index i,
\* the context is the messages max(0,i-1)..min(n-1,i+2) of that file in
\* ascending index order, the result included ([0..9]: 5 gives [4,5,6,7],
\* 0 gives [0,1,2], 9 gives [8,9]); when no scanned message has the result's
\* index the context is empty.
C12_ContextWindow ==
    (WindowDone /\ eng.base = 0) =>
        LET n == eng.n
            i == eng.message_index
        IN  /\ FromFile(eng.result, "f1")
            /\ i < n => IndicesOf(eng.result) = Ints(Max(0, i - 1), Min(n - 1, i + 2))
            /\ i >= n => eng.result = << >>
            /\ (n = 10 /\ i = 5) => IndicesOf(eng.result) = << 4, 5, 6, 7 >>
            /\ (n = 10 /\ i = 0) => IndicesOf(eng.result) = << 0, 1, 2 >>
            /\ (n = 10 /\ i = 9) => IndicesOf(eng.result) = << 8, 9 >>

C12_Witness ==
    /\ WindowDone /\ eng.base = 0 /\ eng.n = 10 /\ eng.message_index = 5
    /\ eng.corpus[2].message_index = 9
    /\ eng.calls > 2
    /\ IndicesOf(eng.result) = << 4, 5, 6, 7 >>

\* C14: the scan of _get_source_window passes each scroll the cursor the
\* previous one returned, goes on exactly while the page is non-empty and the
\* cursor non-null, ends within (number of matches + 1) calls, and has then
\* gathered every matching record exactly once; with no match the function
\* returns the empty sequence.
C14_PagedScanInv ==
    eng.op = "window" =>
        LET matching == MatchingFile(eng.corpus, eng.source_file)
        IN  /\ eng.calls <= Len(matching) + 1
            /\ eng.calls = 0 => (eng.pc = "scroll" /\ eng.points = << >>)
            /\ eng.calls > 0 =>
                  (eng.pc = "scroll" <=> (eng.last_size > 0 /\ eng.offset # NoCursor))
            /\ eng.pc # "scroll" => eng.points = matching
            /\ (eng.pc = "done" /\ matching = << >>) => eng.result = << >>

C14_PagedScan ==
    /\ []C14_PagedScanInv
    /\ [][(eng'.calls # eng.calls) =>
            (eng'.calls = eng.calls + 1 /\ eng'.requested = eng.offset)]_vars

C14_Witness ==
    /\ WindowDone /\ eng.n = 4 /\ eng.calls = 4
    /\ eng.last_size = 0 /\ eng.requested # NoCursor

\* Position (zero-based) of the target in the ascending list of the file.
TargetPos == eng.message_index - eng.base

\* C15 (as claimed): the slice around the target position pos of the
\* ascending list is [pos-1, pos+2) clipped to the list: at most 3 messages.
C15_SliceThree ==
    (WindowDone /\ TargetPos < eng.n) =>
        /\ Len(eng.result) <= 3
        /\ IndicesOf(eng.result) =
              Ints(eng.base + Max(0, TargetPos - 1),
                   eng.base + Min(eng.n, TargetPos + 2) - 1)

\* C15 (amended): the slice is [pos-1, pos+3) clipped to the list: the target,
\* one message before and two after, at most 4 messages.
C15_SliceFour ==
    (WindowDone /\ TargetPos < eng.n) =>
        /\ Len(eng.result) <= 4
        /\ Len(eng.result) = Min(eng.n, TargetPos + 3) - Max(0, TargetPos - 1)
        /\ \A j \in 1..Len(eng.result) :
              eng.result[j].ts = << "f1", eng.base + Max(0, TargetPos - 1) + j - 1 >>

C15_Witness ==
    /\ WindowDone /\ eng.base = 3 /\ eng.n = 10 /\ TargetPos = 5
    /\ Len(eng.result) = 4

\* --------------------------------------- thread preview: get_thread_messages
MaxThread == 14     \* messages of the thread in the store

THREAD_PREVIEW_LIMIT == 12  \* search_messages: limit=12
THREAD_PAGE_LIMIT == 300    \* scroll(limit=min(300, ...))
THREAD_CAP_MAX == 1000      \* cap = max(1, min(limit, 1000))

Channelba == << "b", "a" >>

\* The points of the store: m messages of thread "t1" in the channel written
\* "Ba" or "ba", with ts_float 1..m scanned in ascending or descending order,
\* each followed by a message of another channel and one of another thread.
ThreadCorpus(m, order) ==
    [j \in 1..(3 * m) |->
        LET q == (j + 2) \div 3
            tsf == IF order = "asc" THEN q ELSE m + 1 - q
        IN  CASE j % 3 = 1 -> Msg("f1", tsf, IF q % 2 = 1 THEN ChannelBa ELSE Channelba,
                                  "t1", tsf)
              [] j % 3 = 2 -> Msg("f2", tsf, ChannelAb, "t1", tsf)
              [] OTHER     -> Msg("f3", tsf, ChannelBa, "t2", tsf)]

\* scroll_filter: channel_lower = channel.lower() and thread_ts = thread_ts
MatchingThread(corpus, channel, thread_ts) ==
    LET Test(p) == p.channel_lower = Lower(channel) /\ p.thread_ts = thread_ts
    IN  SelectSeq(corpus, Test)

thread_cap(limit) == Max(1, Min(limit, THREAD_CAP_MAX))

ThreadPageLimitFull(cap, have) == THREAD_PAGE_LIMIT
\* limit=min(300, cap - len(points))
ThreadPageLimit(cap, have) == Min(THREAD_PAGE_LIMIT, cap - have)

\* sorted(points, key=ts_float)
ThreadOrdered(points) ==
    SortedByKeys(points, [j \in 1..Len(points) |-> points[j].ts_float])

InitThread ==
    /\ ServingReady
    /\ \E m \in 0..MaxThread : \E order \in {"asc", "desc"} :
       \E include \in BOOLEAN :
          eng = [op |-> "thread", pc |-> "call", m |-> m,
                 include_thread_context |-> include,
                 channel |-> ChannelBa, thread_ts |-> "t1",
                 corpus |-> ThreadCorpus(m, order),
                 cap |-> 0, points |-> << >>, offset |-> NoCursor,
                 calls |-> 0, result |-> << >>]

\* search_messages: if include_thread_context: get_thread_messages(limit=12)
\* else: thread_preview = []
ThreadCall ==
    /\ eng.op = "thread" /\ eng.pc = "call"
    /\ eng' = IF eng.include_thread_context
              THEN [eng EXCEPT !.cap = thread_cap(THREAD_PREVIEW_LIMIT),
                               !.pc = "scroll"]
              ELSE [eng EXCEPT !.result = << >>, !.pc = "done"]
    /\ UNCHANGED svcVars

\* One turn of `while len(points) < cap`: scroll, extend, test the exits.
ThreadScroll ==
    /\ eng.op = "thread" /\ eng.pc = "scroll"
    /\ Len(eng.points) < eng.cap
    /\ \E page \in ScrollPages(MatchingThread(eng.corpus, eng.channel, eng.thread_ts),
                               ThreadPageLimit(eng.cap, Len(eng.points)),
                               eng.offset) :
          LET points == eng.points \o page.batch
          IN  eng' = [eng EXCEPT !.calls = @ + 1,
                                 !.points = points,
                                 !.offset = page.offset,
                                 !.pc = IF /\ page.batch # << >>
                                           /\ page.offset # NoCursor
                                           /\ Len(points) < eng.cap
                                        THEN "scroll" ELSE "sort"]
    /\ UNCHANGED svcVars

ThreadSort ==
    /\ eng.op = "thread" /\ eng.pc = "sort"
    /\ eng' = [eng EXCEPT !.result = ThreadOrdered(eng.points), !.pc = "done"]
    /\ UNCHANGED svcVars

NextThread == ThreadCall \/ ThreadScroll \/ ThreadSort

SpecThread == InitThread /\ [][NextThread]_vars

ThreadDone == eng.op = "thread" /\ eng.pc = "done"

\* C13: with include_thread_context the preview holds only messages whose
\* lowercased channel and thread_ts are the result's, is ascending in
\* ts_float and has at most 12 entries, however many messages match and
\* however the store pages them; without it the preview is empty and no
\* thread scan is made.
C13_ThreadPreview ==
    eng.op = "thread" =>
        /\ Len(eng.points) <= 12
        /\ ~eng.include_thread_context => eng.calls = 0
        /\ ThreadDone =>
              IF eng.include_thread_context
              THEN /\ Len(eng.result) <= 12
                   /\ \A j \in 1..Len(eng.result) :
                         /\ Lower(eng.result[j].channel) = << "b", "a" >>
                         /\ eng.result[j].thread_ts = "t1"
                         /\ eng.result[j].source_file = "f1"
                   /\ \A j \in 1..(Len(eng.result) - 1) :
                         eng.result[j].ts_float <= eng.result[j + 1].ts_float
              ELSE eng.result = << >>

C13_Witness ==
    /\ ThreadDone /\ eng.include_thread_context /\ eng.m = 14
    /\ eng.corpus[1].ts_float = 14
    /\ eng.calls = 3
    /\ Len(eng.result) = 12
    /\ eng.result[1].channel # eng.result[2].channel

\* ------------------------------------------------ search: search_messages
MaxCand == 4        \* candidates the vector search returns

LIMIT_MIN == 1              \* limit = max(1, ...)
LIMIT_MAX == 100            \* limit = ... min(limit, 100)
CANDIDATES_MIN == 40        \* max(40, limit * 8)
CANDIDATES_FACTOR == 8      \* max(40, limit * 8)
RECENCY_DAYS == 3650        \* clamped / 3650.0

\* Floats are modelled as exact ratios in lowest terms.
RECURSIVE GCD(_, _)
GCD(a, b) == IF b = 0 THEN a ELSE GCD(b, a % b)
Norm(r) ==
    IF r.num = 0 THEN Zero
    ELSE LET g == GCD(r.num, r.den) IN Ratio(r.num \div g, r.den \div g)
RAdd(a, b) == Norm(Ratio(a.num * b.den + b.num * a.den, a.den * b.den))
RMul(a, b) == Norm(Ratio(a.num * b.num, a.den * b.den))
RLess(a, b) == a.num * b.den < b.num * a.den

LEXICAL_WEIGHT == Ratio(1, 5)       \* 0.20
RECENCY_WEIGHT == Ratio(1, 20)      \* 0.05

\* _recency_boost(date_str): a date is << age in days >>, or << >> when it
\* does not parse (strptime raises, the except branch returns 0.0).
_recency_boost(date) ==
    IF date = << >> THEN Zero
    ELSE LET clamped == Max(0, Min(date[1], RECENCY_DAYS))
         IN  Norm(Ratio(RECENCY_DAYS - clamped, RECENCY_DAYS))

\* score = float(hit.score) + (0.20 * lexical) + (0.05 * recency)
CombinedScore(vector_score, lexical, recency) ==
    RAdd(vector_score, RAdd(RMul(LEXICAL_WEIGHT, lexical),
                            RMul(RECENCY_WEIGHT, recency)))

\* The query of the requests below, and the hits the store may return.
SearchQueryText == << "a", " ", "B" >>
Hit(score, text, date) == [score |-> score, text |-> text, date |-> date]
HighHits ==
    { Hit(Ratio(7, 10), << " " >>, << 0 >>),        \* 0.70 + 0    + 0.05
      Hit(Ratio(7, 10), << "a" >>, << 5000 >>),     \* 0.70 + 0.10 + 0
      Hit(Ratio(7, 10), << " " >>, << >>) }         \* 0.70 + 0    + 0
LowHits ==
    { Hit(Ratio(1, 2), << "a", " ", "B" >>, << 0 >>),       \* 0.50 + 0.20 + 0.05
      Hit(Ratio(1, 2), << "B" >>, << 1825 >>) }             \* 0.50 + 0.10 + 0.025

\* query_points(...).points: at most MaxCand hits, best vector score first.
CandidateLists ==
    UNION { { high \o low : high \in [1..hl[1] -> HighHits],
                            low \in [1..hl[2] -> LowHits] } :
            hl \in { x \in (0..MaxCand) \X (0..1) : x[1] + x[2] <= MaxCand } }

\* limit = max(1, min(limit, 100))
clamp_limit(limit) == Max(LIMIT_MIN, Min(limit, LIMIT_MAX))

candidate_limit_exact(limit) == limit
\* query_points(limit=max(40, limit * 8))
candidate_limit(limit) == Max(CANDIDATES_MIN, limit * CANDIDATES_FACTOR)

\* The dict appended to `rescored` for the hit at position i of raw_results;
\* `ts` names the message (messages are named by their vector-search rank).
Rescored(hit, i, query_terms) ==
    [score |-> CombinedScore(hit.score,
                             _keyword_overlap(query_terms, hit.text),
                             _recency_boost(hit.date)),
     vector_score |-> hit.score, text |-> hit.text, date |-> hit.date,
     ts |-> i]

\* rescored.sort(key=score, reverse=True): position i is put after every
\* position whose score is not smaller, so equal scores keep their order.
RECURSIVE InsertByScoreTiesFirst(_, _, _)
InsertByScoreTiesFirst(sorted, i, items) ==
    IF sorted = << >> THEN << i >>
    ELSE IF ~RLess(items[i].score, items[Head(sorted)].score)
    THEN << i >> \o sorted
    ELSE << Head(sorted) >> \o InsertByScoreTiesFirst(Tail(sorted), i, items)
RECURSIVE InsertByScore(_, _, _)
InsertByScore(sorted, i, items) ==
    IF sorted = << >> THEN << i >>
    ELSE IF RLess(items[Head(sorted)].score, items[i].score)
    THEN << i >> \o sorted
    ELSE << Head(sorted) >> \o InsertByScore(Tail(sorted), i, items)

RECURSIVE ScoreOrderUpTo(_, _)
ScoreOrderUpTo(items, n) ==
    IF n = 0 THEN << >> ELSE InsertByScore(ScoreOrderUpTo(items, n - 1), n, items)

SortByScoreDesc(items) ==
    [j \in 1..Len(items) |-> items[ScoreOrderUpTo(items, Len(items))[j]]]

\* top = rescored[:limit]
TopOf(rescored, limit) == Slice(rescored, 0, Min(limit, Len(rescored)))

\* item["context"] = ...; item["thread_preview"] = ...
EnrichedLosesScore(item, context, thread_preview) ==
    [score |-> item.vector_score, vector_score |-> item.vector_score,
     text |-> item.text, date |-> item.date, ts |-> item.ts,
     context |-> context, thread_preview |-> thread_preview]
Enriched(item, context, thread_preview) ==
    [score |-> item.score, vector_score |-> item.vector_score,
     text |-> item.text, date |-> item.date, ts |-> item.ts,
     context |-> context, thread_preview |-> thread_preview]

\* What the scans of the enrichment answer in this specification (the scans
\* themselves are SpecWindow and SpecThread).
ContextSample == << [channel |-> ChannelBa, ts |-> << "f1", 0 >>] >>
PreviewSample == << Msg("f1", 0, ChannelBa, "t1", 1) >>

LimitInputs == {0, 1, 2, 6, 101}

InitSearch ==
    /\ ServingReady
    /\ \E limit \in LimitInputs : \E include \in BOOLEAN :
       \E dates \in Outcomes : \E cands \in CandidateLists :
          eng = [op |-> "search", pc |-> "start",
                 query |-> SearchQueryText, limit_arg |-> limit, limit |-> 0,
                 include_thread_context |-> include, dates |-> dates,
                 cands |-> cands, raw_results |-> << >>,
                 ranked |-> << >>, top |-> << >>, done |-> 0,
                 embed_calls |-> 0, query_calls |-> 0, scans |-> 0,
                 requested |-> 0, failed_at |-> "none", result |-> << >>]

\* get_client(), the clamp of limit and the filter (_date_to_unix raises
\* ValueError on a date that does not parse).
SearchStart ==
    /\ eng.op = "search" /\ eng.pc = "start"
    /\ eng' = IF _client = "None" \/ eng.dates = "raise"
              THEN [eng EXCEPT !.pc = "failed", !.failed_at = "args"]
              ELSE [eng EXCEPT !.pc = "embed",
                               !.limit = clamp_limit(eng.limit_arg)]
    /\ UNCHANGED svcVars

\* query_vector = get_embedding(query)
SearchEmbed ==
    /\ eng.op = "search" /\ eng.pc = "embed"
    /\ \E outcome \in Outcomes :
          eng' = IF outcome = "raise"
                 THEN [eng EXCEPT !.embed_calls = @ + 1,
                                  !.pc = "failed", !.failed_at = "embed"]
                 ELSE [eng EXCEPT !.embed_calls = @ + 1, !.pc = "search"]
    /\ UNCHANGED svcVars

\* raw_results = client.query_points(..., limit=max(40, limit * 8)).points
SearchVectors ==
    /\ eng.op = "search" /\ eng.pc = "search"
    /\ \E outcome \in Outcomes :
          eng' = IF outcome = "raise"
                 THEN [eng EXCEPT !.query_calls = @ + 1,
                                  !.requested = candidate_limit(eng.limit),
                                  !.pc = "failed", !.failed_at = "search"]
                 ELSE [eng EXCEPT !.query_calls = @ + 1,
                                  !.requested = candidate_limit(eng.limit),
                                  !.raw_results =
                                      Slice(eng.cands, 0,
                                            Min(candidate_limit(eng.limit),
                                                Len(eng.cands))),
                                  !.pc = "rank"]
    /\ UNCHANGED svcVars

\* The rescoring loop, the sort and the truncation.
SearchRank ==
    /\ eng.op = "search" /\ eng.pc = "rank"
    /\ LET query_terms == _keyword_terms(eng.query)
           rescored == [i \in 1..Len(eng.raw_results) |->
                           Rescored(eng.raw_results[i], i, query_terms)]
           top == TopOf(SortByScoreDesc(rescored), eng.limit)
       IN  eng' = [eng EXCEPT !.ranked = top, !.top = top, !.pc = "enrich"]
    /\ UNCHANGED svcVars

\* One turn of `for item in top`: the context scan, then the thread scan when
\* include_thread_context; either may raise.
SearchEnrich ==
    /\ eng.op = "search" /\ eng.pc = "enrich"
    /\ eng.done < Len(eng.top)
    /\ LET k == eng.done + 1 IN
       \E window \in Outcomes : \E thread \in Outcomes :
          eng' = IF window = "raise"
                 THEN [eng EXCEPT !.scans = @ + 1,
                                  !.pc = "failed", !.failed_at = "scan"]
                 ELSE IF ~eng.include_thread_context
                 THEN [eng EXCEPT !.scans = @ + 1, !.done = k,
                                  !.top[k] = Enriched(@, ContextSample, << >>)]
                 ELSE IF thread = "raise"
                 THEN [eng EXCEPT !.scans = @ + 2,
                                  !.pc = "failed", !.failed_at = "scan"]
                 ELSE [eng EXCEPT !.scans = @ + 2, !.done = k,
                                  !.top[k] = Enriched(@, ContextSample, PreviewSample)]
    /\ UNCHANGED svcVars

\* return top
SearchReturn ==
    /\ eng.op = "search" /\ eng.pc = "enrich"
    /\ eng.done = Len(eng.top)
    /\ eng' = [eng EXCEPT !.result = eng.top, !.pc = "done"]
    /\ UNCHANGED svcVars

NextSearch ==
    SearchStart \/ SearchEmbed \/ SearchVectors \/ SearchRank \/ SearchEnrich
        \/ SearchReturn

SpecSearch == InitSearch /\ [][NextSearch]_vars

Ranked == eng.op = "search" /\ eng.pc \in {"enrich", "done"}
SearchDone == eng.op = "search" /\ eng.pc = "done"

\* The combined score of the candidate at position i of the vector search.
ScoreOfCandidate(i) ==
    CombinedScore(eng.raw_results[i].score,
                  _keyword_overlap(_keyword_terms(eng.query), eng.raw_results[i].text),
                  _recency_boost(eng.raw_results[i].date))

\* C11: for every candidate list the vector search returns, the ranked list
\* (i) has at most `limit` elements, (ii) is in descending order of combined
\* score, (iii) keeps candidates of equal combined score in the order of the
\* vector search, and (iv) is made of the `limit` best candidates: distinct
\* candidates, min(limit, number of candidates) of them, none left out that
\* scores strictly higher than one kept.
C11_RankedTopLimit ==
    Ranked =>
        LET top == eng.ranked
            n == Len(eng.raw_results)
            kept == { top[j].ts : j \in 1..Len(top) }
        IN  /\ Len(top) <= eng.limit
            /\ eng.limit_arg \in 1..100 => Len(top) <= eng.limit_arg
            /\ \A j \in 1..Len(top) :
                  /\ top[j].ts \in 1..n
                  /\ top[j].score = ScoreOfCandidate(top[j].ts)
            /\ \A j, k \in 1..Len(top) :
                  j < k =>
                     /\ ~RLess(top[j].score, top[k].score)
                     /\ top[j].score = top[k].score => top[j].ts < top[k].ts
            /\ Cardinality(kept) = Len(top)
            /\ Len(top) = Min(eng.limit, n)
            /\ \A c \in (1..n) \ kept : \A i \in kept :
                  ~RLess(ScoreOfCandidate(i), ScoreOfCandidate(c))

\* Three candidates, the last two of equal combined score (0.75) and ahead
\* of the first (0.70); a limit of 2 keeps them in vector-search order.
C11_Witness ==
    /\ Ranked /\ eng.limit = 2 /\ Len(eng.raw_results) = 3
    /\ eng.raw_results[1].date = << >>
    /\ ScoreOfCandidate(2) = Ratio(3, 4) /\ ScoreOfCandidate(3) = Ratio(3, 4)
    /\ eng.raw_results[2].score # eng.raw_results[3].score
    /\ Len(eng.ranked) = 2
    /\ eng.ranked[1].ts = 2 /\ eng.ranked[2].ts = 3

StoredFields == {"score", "vector_score", "text", "date", "ts"}

\* C16: the sequence search returns has the elements of the ranked top list
\* in the same order; each differs from the ranked element only by the added
\* context and thread_preview. A request whose enrichment scan raises
\* returns nothing.
C16_EnrichmentKeepsRanking ==
    eng.op = "search" =>
        /\ SearchDone =>
              /\ Len(eng.result) = Len(eng.ranked)
              /\ \A j \in 1..Len(eng.result) :
                    /\ DOMAIN eng.result[j] =
                          StoredFields \cup {"context", "thread_preview"}
                    /\ \A f \in StoredFields : eng.result[j][f] = eng.ranked[j][f]
        /\ eng.pc = "enrich" =>
              \A j \in 1..Len(eng.top) :
                 \A f \in StoredFields : eng.top[j][f] = eng.ranked[j][f]
        /\ eng.pc = "failed" => eng.result = << >>

C16_Witness ==
    /\ SearchDone /\ Len(eng.result) = 3 /\ eng.scans = 6
    /\ eng.result[1].ts = 3 /\ eng.result[2].ts = 1 /\ eng.result[3].ts = 2
    /\ eng.result[1].score # eng.result[1].vector_score
    /\ eng.result[1].thread_preview # << >>

SearchEnded == eng.op = "search" /\ eng.pc \in {"done", "failed"}

\* C17 (as claimed): every search request issues exactly one embedding call,
\* and then exactly one vector search unless the embedding failed.
C17_OneEmbeddingEach ==
    SearchEnded =>
        /\ eng.embed_calls = 1
        /\ eng.failed_at # "embed" => eng.query_calls = 1

\* C17 (amended): a request whose arguments are accepted (open store handle,
\* dates that parse) issues exactly one embedding call and, when that
\* succeeds, exactly one vector search asking for max(40, limit*8) candidates,
\* limit clamped to [1,100] (so 40..800); a request rejected on its arguments
\* issues no call; a failed embedding call is followed by no vector search and
\* no scan; the readiness flag and the store handle are never changed.
C17_OneEmbeddingThenOneSearch ==
    eng.op = "search" =>
        LET l == IF eng.limit_arg < 1 THEN 1
                 ELSE IF eng.limit_arg > 100 THEN 100 ELSE eng.limit_arg
        IN  /\ eng.embed_calls <= 1 /\ eng.query_calls <= 1
            /\ eng.query_calls = 1 => (eng.embed_calls = 1 /\ eng.failed_at # "embed")
            /\ eng.scans > 0 => eng.query_calls = 1
            /\ eng.failed_at = "args" =>
                  (eng.embed_calls = 0 /\ eng.query_calls = 0 /\ eng.scans = 0)
            /\ eng.failed_at = "embed" =>
                  (eng.embed_calls = 1 /\ eng.query_calls = 0 /\ eng.scans = 0
                     /\ eng.result = << >>)
            /\ (SearchEnded /\ eng.failed_at \notin {"args", "embed"}) =>
                  /\ eng.embed_calls = 1 /\ eng.query_calls = 1
                  /\ eng.limit = l
                  /\ eng.requested = (IF l * 8 < 40 THEN 40 ELSE l * 8)
                  /\ eng.requested \in 40..800
            /\ _ready = TRUE /\ _client = "open"

C17_Witness ==
    /\ SearchDone /\ eng.limit_arg = 101 /\ eng.requested = 800
    /\ eng.embed_calls = 1 /\ eng.query_calls = 1 /\ eng.scans > 0

\* ------------------------------------------- provisioning without settings
\* The process started without its index and without a credential or the
\* passphrase.
AbsentAndUnconfigured ==
    /\ ~(fs0.qdrant /\ fs0.state_db)
    /\ ~config.access_key \/ ~config.secret_key \/ ~config.encryption_key

\* C20: when the local index is absent and a credential or the passphrase is
\* missing, load_artifact raises at the check of that setting (or earlier,
\* at mkdir): no object-storage client is built, no manifest is fetched,
\* nothing is downloaded, no later stage runs, and readiness stays false.
C20_AbortBeforeStorageCall ==
    AbsentAndUnconfigured =>
        /\ s3 = NoS3
        /\ ~_ready
        /\ \A stage \in {"resolve_version", "fetch_manifest", "download", "decrypt",
                           "verify_checksum", "extract", "verify_layout"} :
              ran[stage] = 0
        /\ pc \in {"init_client", "ensure_collection", "serving", "stopped"} =>
              failed \in {"mkdir", "check_credentials", "check_passphrase"}

C20_Witness ==
    /\ AbsentAndUnconfigured
    /\ config.access_key /\ config.secret_key /\ ~config.encryption_key
    /\ fs0.qdrant /\ ~fs0.state_db
    /\ pc = "serving" /\ failed = "check_passphrase"
    /\ resp.endpoint = "readyz" /\ resp.status = 503

\* ------------------------------------------------------- scratch storage
InsideBlock == pc \in {"decrypt", "verify_checksum", "extract"}

\* C21: the scratch directory is held only inside the with-block (between a
\* successful download and the end of extraction); once load_artifact has
\* returned or raised, after a successful extraction as after a failure of
\* download, decryption, checksum verification or extraction, it is released.
C21_ScratchReleased ==
    /\ scratch <=> InsideBlock
    /\ LoadReturned => ~scratch
    /\ failed \in {"download", "decrypt", "verify_checksum", "extract"} => ~scratch
    /\ pc = "verify_layout" => ~scratch

C21_Witness ==
    /\ failed = "verify_checksum" /\ pc = "serving" /\ ~scratch
    /\ s3.download_file = 1 /\ ran["decrypt"] = 1
    /\ expected_sha256 = "d1" /\ actual_sha256 = "d2"

\* --------------------------------------------------------- process restart
MaxBoots == 2       \* process starts on the same local storage

Boots == IF eng.op = "boot" THEN eng.boots ELSE 1

\* The process ends (after serving, or after shutdown) and is started again:
\* module state is initialised anew, local storage is what the previous run
\* left. `eng` remembers how the previous run's provisioning ended.
Restart ==
    /\ pc \in {"serving", "stopped"}
    /\ Boots < MaxBoots
    /\ eng' = [op |-> "boot", boots |-> Boots + 1, prev_failed |-> failed]
    /\ fs0' = fs
    /\ _ready' = ReadyInit
    /\ _client' = "None"
    /\ _artifact_version' = "None"
    /\ pc' = "mkdir"
    /\ ran' = [s \in Steps |-> 0]
    /\ failed' = "none"
    /\ error' = NoError
    /\ s3' = NoS3
    /\ expected_sha256' = NoDigest
    /\ actual_sha256' = NoDigest
    /\ scratch' = FALSE
    /\ extracted' = {}
    /\ resp' = NoResp
    /\ UNCHANGED << config, fs, store, db_files >>

\* Startup, shutdown and restart. The request handlers are left out: they
\* change nothing but the response (handlerFrame).
NextRestart ==
    \/ MkIndexDir
    \/ CheckLocal
    \/ CheckCredentials
    \/ CheckPassphrase
    \/ ResolveVersion
    \/ FetchManifest
    \/ Download
    \/ Decrypt
    \/ VerifyChecksum
    \/ Extract
    \/ VerifyLayout
    \/ InitClient
    \/ EnsureCollection
    \/ Shutdown
    \/ Restart

\* A first start that has to provision: settings complete, index not in place.
InitRestart ==
    /\ Init
    /\ config.access_key /\ config.secret_key /\ config.encryption_key
    /\ ~(fs.qdrant /\ fs.state_db)

SpecRestart == InitRestart /\ [][NextRestart]_vars

\* C22: a process started after a run whose provisioning aborted in
\* extraction or in the layout verification is ready only after it has itself
\* downloaded and decrypted the artifact and passed the checksum stage.
C22_RestartProvisionsAgain ==
    (eng.op = "boot" /\ eng.prev_failed \in {"extract", "verify_layout"} /\ _ready) =>
        /\ ran["download"] = 1
        /\ ran["decrypt"] = 1
        /\ ran["verify_checksum"] = 1 \/ expected_sha256 = NoDigest

\* --------------------------------- store handle: init / get / close_client
MaxCalls == 9       \* calls of init_client, get_client, close_client

\* A process whose index was in place, about to call init_client.
BeforeInitClient ==
    /\ config = [access_key |-> TRUE, secret_key |-> TRUE,
                 encryption_key |-> TRUE, version |-> "latest"]
    /\ fs = [index_dir |-> TRUE, qdrant |-> TRUE, state_db |-> TRUE]
    /\ fs0 = fs
    /\ store = [collection |-> TRUE, points |-> MaxPoints]
    /\ db_files = MaxFiles
    /\ _ready = TRUE
    /\ _client = "None"
    /\ _artifact_version = "latest"
    /\ pc = "init_client"
    /\ ran = [s \in Steps |-> IF s \in {"mkdir", "check_local"} THEN 1 ELSE 0]
    /\ failed = "none"
    /\ error = NoError
    /\ s3 = NoS3
    /\ expected_sha256 = NoDigest
    /\ actual_sha256 = NoDigest
    /\ scratch = FALSE
    /\ extracted = {}
    /\ resp = NoResp

\* Handles are numbered in the order QdrantClient(...) builds them; 0 is None.
\* closes[h] counts the close() calls made on handle h.
InitClientCalls ==
    /\ BeforeInitClient
    /\ eng = [op |-> "client", calls |-> 0, handle |-> 0, closes |-> << >>,
              last |-> [call |-> "none", outcome |-> "none", handle |-> 0]]

\* init_client: `if _client is not None: return _client`
NeedsNewHandleAlways(handle) == TRUE
NeedsNewHandle(handle) == handle = 0

\* init_client()
ClientInit ==
    /\ eng.op = "client" /\ eng.calls < MaxCalls
    /\ IF NeedsNewHandle(eng.handle)
       THEN \/ LET h == Len(eng.closes) + 1
               IN  /\ eng' = [eng EXCEPT !.calls = @ + 1, !.handle = h,
                                         !.closes = Append(@, 0),
                                         !.last = [call |-> "init_client",
                                                   outcome |-> "return",
                                                   handle |-> h]]
                   /\ _client' = "open"
            \/ /\ eng' = [eng EXCEPT !.calls = @ + 1,
                                     !.last = [call |-> "init_client",
                                               outcome |-> "raise", handle |-> 0]]
               /\ _client' = _client
       ELSE /\ eng' = [eng EXCEPT !.calls = @ + 1,
                                  !.last = [call |-> "init_client",
                                            outcome |-> "return",
                                            handle |-> eng.handle]]
            /\ _client' = _client
    /\ UNCHANGED << envVars, _ready, _artifact_version, pc, ran, failed, error,
                    loadVars, resp >>

\* get_client()
ClientGet ==
    /\ eng.op = "client" /\ eng.calls < MaxCalls
    /\ eng' = [eng EXCEPT !.calls = @ + 1,
                          !.last = IF _client = "None"
                                   THEN [call |-> "get_client", outcome |-> "raise",
                                         handle |-> 0]
                                   ELSE [call |-> "get_client", outcome |-> "return",
                                         handle |-> eng.handle]]
    /\ UNCHANGED svcVars

\* close_client(): close() on the handle (an exception of close is passed
\* over), then _client = None; nothing when there is no handle.
ClientClose ==
    /\ eng.op = "client" /\ eng.calls < MaxCalls
    /\ IF _client # "None"
       THEN /\ eng' = [eng EXCEPT !.calls = @ + 1, !.handle = 0,
                                  !.closes[eng.handle] = @ + 1,
                                  !.last = [call |-> "close_client",
                                            outcome |-> "return",
                                            handle |-> eng.handle]]
            /\ _client' = "None"
       ELSE /\ eng' = [eng EXCEPT !.calls = @ + 1,
                                  !.last = [call |-> "close_client",
                                            outcome |-> "return", handle |-> 0]]
            /\ _client' = _client
    /\ UNCHANGED << envVars, _ready, _artifact_version, pc, ran, failed, error,
                    loadVars, resp >>

NextClient == ClientInit \/ ClientGet \/ ClientClose

SpecClient == InitClientCalls /\ [][NextClient]_vars

\* The handles built and not yet closed.
LiveHandles == { h \in 1..Len(eng.closes) : eng.closes[h] = 0 }

\* C23: at any time at most one handle is live, and it is the one _client
\* holds; init_client with a handle present builds nothing and returns that
\* handle; close_client calls close on a handle at most once and leaves
\* _client absent, and with no handle present does nothing; get_client raises
\* exactly when no handle is present and otherwise returns the live handle.
C23_HandleInv ==
    eng.op = "client" =>
        /\ (_client = "None") <=> (eng.handle = 0)
        /\ LiveHandles = (IF eng.handle = 0 THEN {} ELSE {eng.handle})
        /\ \A h \in 1..Len(eng.closes) : eng.closes[h] <= 1
        /\ (eng.last.call = "init_client" /\ eng.last.outcome = "return") =>
              (eng.last.handle = eng.handle /\ eng.handle # 0)
        /\ (eng.last.call = "get_client" /\ eng.last.outcome = "return") =>
              (eng.last.handle = eng.handle /\ eng.last.handle \in LiveHandles)
        /\ eng.last.call = "close_client" => (_client = "None" /\ eng.handle = 0)

C23_SingleHandleLifecycle ==
    /\ []C23_HandleInv
    /\ [][(eng.op = "client" /\ eng'.calls # eng.calls) =>
            /\ (eng'.last.call = "init_client" /\ eng.handle # 0) =>
                  (eng'.handle = eng.handle /\ eng'.closes = eng.closes
                     /\ eng'.last.outcome = "return")
            /\ (eng'.last.call = "close_client" /\ eng.handle = 0) =>
                  (eng'.closes = eng.closes /\ _client' = "None")
            /\ (eng'.last.call = "close_client" /\ eng.handle # 0) =>
                  eng'.closes[eng.handle] = 1
            /\ eng'.last.call = "get_client" =>
                  ((eng'.last.outcome = "raise") <=> (eng.handle = 0))
         ]_vars

\* init, init again, close, close again, get (raises), init: a second handle.
C23_Witness ==
    /\ eng.op = "client" /\ eng.calls = 7
    /\ eng.closes = << 1, 0 >> /\ eng.handle = 2
    /\ eng.last = [call |-> "get_client", outcome |-> "return", handle |-> 2]

====
